---- MODULE Spec2Model ----
(***************************************************************************)
(* Model of zgen-abi: the EthereumTypes value model (src/types.rs, and its *)
(* copy in src/lib.rs) and the calldata encoder `transaction`              *)
(* (src/lib.rs).                                                           *)
(*                                                                         *)
(* Strings are sequences of one-character strings, so that push, pop and   *)
(* concatenation act on characters as they do in the code.  A byte is an   *)
(* integer in 0..255.  A JSON value (serde_json::Value) is a record whose  *)
(* field t is its kind; an object carries its keys as further fields.      *)
(***************************************************************************)
EXTENDS Integers, Sequences, FiniteSets, TLC

VARIABLES
    op,             \* the operation called
    pc,             \* position in the operation being run
    functions,      \* transaction: the parsed ABI document
    function_name,  \* transaction: the name looked up
    arguments,      \* transaction: Vec<EthereumTypes>
    i,              \* transaction: index of the lookup scan
    function_found, \* transaction: flag of the lookup scan
    j,              \* transaction: index reached by the validation loop
    inputs,         \* transaction: the declared type names collected
    signature,      \* transaction: the signature string that is hashed
    first_4_bytes,  \* transaction: the output vector being built
    result,         \* what the operation returned (or that it panicked)
    bytes,          \* *_from_bytes: the input slice
    value,          \* *_from_bytes: the EthereumTypes constructed
    word            \* value_as_u256 of that value

vars == <<op, pc, functions, function_name, arguments, i, function_found, j,
          inputs, signature, first_4_bytes, result, bytes, value, word>>

----------------------------------------------------------------------------
(* Bounds of the model *)

MaxEntries == 2
MaxArgs == 2
MaxBytesLen == 33

(* Widths fixed by the program *)

AddressWidth == 20
WordWidth == 32
SelectorLen == 4

----------------------------------------------------------------------------
(* serde_json::Value, as far as the code reads it *)

Null == [t |-> "null"]
String(s) == [t |-> "string", s |-> s]
Number(n) == [t |-> "number", n |-> n]
Array(a) == [t |-> "array", a |-> a]
EmptyObject == [t |-> "object"]

\* v[k] for a usize k: the element, or Null when v is no array or k is out
\* of range
Index(v, k) ==
    IF v.t = "array" /\ k < Len(v.a) THEN v.a[k + 1] ELSE Null

\* v[key] for a string key: the member, or Null when v is no object or has
\* no such key
Get(v, key) ==
    IF v.t = "object" /\ key \in DOMAIN v THEN v[key] ELSE Null

\* v == s for a &str s: true only of a JSON string with those characters
EqStr(v, s) == v.t = "string" /\ v.s = s

\* v.as_str().is_some()
IsStr(v) == v.t = "string"

----------------------------------------------------------------------------
(* EthereumTypes *)

address == <<"a", "d", "d", "r", "e", "s", "s">>
uint256 == <<"u", "i", "n", "t", "2", "5", "6">>

Address(val) == [variant |-> "Address", val |-> val]
U256(val) == [variant |-> "U256", val |-> val]
NoValue == [variant |-> "none"]

name_as_str(self) ==
    IF self.variant = "Address" THEN address ELSE uint256

value_as_u256(self) ==
    IF self.variant = "Address"
    THEN [k \in 1..WordWidth |->
            IF k - 1 >= WordWidth - AddressWidth
            THEN self.val[k - (WordWidth - AddressWidth)]
            ELSE 0]
    ELSE self.val

\* mutant: pads on the right instead of the left
address_from_bytes_right_padded(b) ==
    Address([k \in 1..AddressWidth |-> IF k <= Len(b) THEN b[k] ELSE 0])

\* the body of address_from_bytes after its assert
address_from_bytes(b) ==
    LET diff == AddressWidth - Len(b)
    IN  Address([k \in 1..AddressWidth |->
                    IF k - 1 >= diff THEN b[k - diff] ELSE 0])

\* the body of u256_from_bytes after its assert
u256_from_bytes(b) ==
    LET diff == WordWidth - Len(b)
    IN  U256([k \in 1..WordWidth |->
                    IF k - 1 >= diff THEN b[k - diff] ELSE 0])

----------------------------------------------------------------------------
(* Results *)

NoResult == [tag |-> "none"]
Ok(v) == [tag |-> "Ok", bytes |-> v]
\* "Function name {} not found in the ABI json file."
FunctionNotFound(fname) ==
    [tag |-> "Err", kind |-> "FunctionNotFound", name |-> fname]
\* mutant: the two format arguments exchanged
TypeMismatchSwapped(expected, found) ==
    [tag |-> "Err", kind |-> "TypeMismatch",
     expected |-> found, found |-> expected]

\* "Input arguments doesn't match. Expected {}, found {}."
TypeMismatch(expected, found) ==
    [tag |-> "Err", kind |-> "TypeMismatch",
     expected |-> expected, found |-> found]
\* "Input type of function {} was not a String. ABI is not properly formatted."
MalformedDescription(name) ==
    [tag |-> "Err", kind |-> "MalformedDescription", name |-> name]
\* a failed assert! or unwrap: the thread panics, nothing is returned
Panic == [tag |-> "Panic"]

----------------------------------------------------------------------------
(* transaction: the lookup scan *)

\* mutant: stops at the first element that has any name
RECURSIVE ScanAnyName(_, _, _)
ScanAnyName(fs, fname, k) ==
    IF Index(fs, k) = Null
    THEN [i |-> k, function_found |-> FALSE]
    ELSE IF IsStr(Get(Index(fs, k), "name"))
         THEN [i |-> k, function_found |-> TRUE]
         ELSE ScanAnyName(fs, fname, k + 1)

\* mutant: runs to the end of the list, stepping over null elements
RECURSIVE ScanPastNull(_, _, _)
ScanPastNull(fs, fname, k) ==
    IF fs.t # "array" \/ k >= Len(fs.a)
    THEN [i |-> k, function_found |-> FALSE]
    ELSE IF EqStr(Get(Index(fs, k), "name"), fname)
         THEN [i |-> k, function_found |-> TRUE]
         ELSE ScanPastNull(fs, fname, k + 1)

\* mutant: no break, the last entry with the name is the one kept
RECURSIVE ScanLast(_, _, _)
ScanLast(fs, fname, k) ==
    IF Index(fs, k) = Null
    THEN [i |-> k, function_found |-> FALSE]
    ELSE LET rest == ScanLast(fs, fname, k + 1)
         IN  IF rest.function_found THEN rest
             ELSE IF EqStr(Get(Index(fs, k), "name"), fname)
                  THEN [i |-> k, function_found |-> TRUE]
                  ELSE rest

RECURSIVE Scan(_, _, _)
Scan(fs, fname, k) ==
    IF Index(fs, k) = Null
    THEN [i |-> k, function_found |-> FALSE]
    ELSE IF EqStr(Get(Index(fs, k), "name"), fname)
         THEN [i |-> k, function_found |-> TRUE]
         ELSE Scan(fs, fname, k + 1)

(* transaction: the validation loop over the arguments *)

declared_type(entry, k) == Get(Index(Get(entry, "inputs"), k), "type")

\* mutant: an argument beyond the declared list is accepted unchecked
RECURSIVE CheckInputsLenient(_, _, _, _)
CheckInputsLenient(entry, args, k, acc) ==
    IF k = Len(args)
    THEN [err |-> FALSE, j |-> k, inputs |-> acc]
    ELSE LET s == declared_type(entry, k)
             arg == args[k + 1]
         IN  IF IsStr(s)
             THEN IF s.s # name_as_str(arg)
                  THEN [err |-> TRUE, j |-> k, inputs |-> acc,
                        error |-> TypeMismatch(s.s, name_as_str(arg))]
                  ELSE CheckInputsLenient(entry, args, k + 1, Append(acc, s.s))
             ELSE IF Index(Get(entry, "inputs"), k) = Null
                  THEN CheckInputsLenient(entry, args, k + 1, acc)
                  ELSE [err |-> TRUE, j |-> k, inputs |-> acc,
                        error |-> MalformedDescription(Get(entry, "name"))]

RECURSIVE CheckInputs(_, _, _, _)
CheckInputs(entry, args, k, acc) ==
    IF k = Len(args)
    THEN [err |-> FALSE, j |-> k, inputs |-> acc]
    ELSE LET s == declared_type(entry, k)
             arg == args[k + 1]
         IN  IF IsStr(s)
             THEN IF s.s # name_as_str(arg)
                  THEN [err |-> TRUE, j |-> k, inputs |-> acc,
                        error |-> TypeMismatch(s.s, name_as_str(arg))]
                  ELSE CheckInputs(entry, args, k + 1, Append(acc, s.s))
             ELSE [err |-> TRUE, j |-> k, inputs |-> acc,
                   error |-> MalformedDescription(Get(entry, "name"))]

(* transaction: the signature string *)

RECURSIVE PushInputs(_, _)
PushInputs(sig, inps) ==
    IF inps = <<>> THEN sig
    ELSE PushInputs(sig \o Head(inps) \o <<",">>, Tail(inps))

\* String::pop: removes the last character, if there is one
Pop(s) == IF s = <<>> THEN s ELSE SubSeq(s, 1, Len(s) - 1)

\* mutant: the trailing comma is not popped
BuildSignatureNoPop(name, inps) ==
    PushInputs(name \o <<"(">>, inps) \o <<")">>

BuildSignature(name, inps) ==
    Pop(PushInputs(name \o <<"(">>, inps)) \o <<")">>

(* transaction: hashing and packing *)

\* Keccak256 of a string, uninterpreted: byte k of the digest of s
Keccak256(s) == [k \in 1..WordWidth |-> [keccak256 |-> s, byte |-> k - 1]]

\* mutant: the words are appended last argument first
RECURSIVE ExtendReversed(_, _)
ExtendReversed(out, args) ==
    IF args = <<>> THEN out
    ELSE ExtendReversed(out, Tail(args)) \o value_as_u256(Head(args))

RECURSIVE Extend(_, _)
Extend(out, args) ==
    IF args = <<>> THEN out
    ELSE Extend(out \o value_as_u256(Head(args)), Tail(args))

----------------------------------------------------------------------------
(* Inputs *)

f == <<"f">>
g == <<"g">>
FunctionNames == {f, g}

SeqsUpTo(S, n) == UNION {[1..k -> S] : k \in 0..n}

TypeParam(ty) == [t |-> "object", type |-> String(ty)]
NoTypeParam == EmptyObject
NumberTypeParam == [t |-> "object", type |-> Number(5)]

\* well-formed "inputs" values
DeclaredLists ==
    {Array(<<>>),
     Array(<<TypeParam(address)>>),
     Array(<<TypeParam(uint256)>>),
     Array(<<TypeParam(address), TypeParam(address)>>),
     Array(<<TypeParam(address), TypeParam(uint256)>>),
     Array(<<TypeParam(uint256), TypeParam(address)>>),
     Array(<<TypeParam(address), TypeParam(address), TypeParam(uint256)>>)}

\* "inputs" values that are no list of typed parameters
MalformedLists ==
    {String(address),
     Array(<<NoTypeParam>>),
     Array(<<NumberTypeParam>>),
     Array(<<NumberTypeParam, TypeParam(uint256)>>),
     Array(<<TypeParam(address), NoTypeParam>>)}

Entry(n, inp) == [t |-> "object", name |-> String(n), inputs |-> inp]

Entries ==
    {Entry(f, inp) : inp \in DeclaredLists \cup MalformedLists}
    \cup {[t |-> "object", name |-> String(f)]}
    \cup {Entry(g, Array(<<>>)), Entry(g, Array(<<TypeParam(uint256)>>))}

Elements ==
    Entries
    \cup {Null, String(f), EmptyObject, [t |-> "object", name |-> Number(5)]}

Descriptions ==
    {Array(a) : a \in SeqsUpTo(Elements, MaxEntries)}
    \cup {Null, Entry(f, Array(<<>>))}

\* the addresses and the amount of the tests
TestAddress1 ==
    <<48, 231, 215, 255, 248, 92, 141, 14, 119, 81,
      64, 177, 173, 147, 194, 48, 213, 89, 82, 7>>
TestAddress2 ==
    <<129, 251, 174, 60, 105, 54, 36, 254, 201, 239,
      26, 134, 98, 98, 40, 152, 11, 235, 28, 113>>
TestAmount == <<0, 0, 0, 4, 168, 23, 200, 0>>

ArgValues ==
    {Address(TestAddress1), Address(TestAddress2), u256_from_bytes(TestAmount)}

ArgumentLists == SeqsUpTo(ArgValues, MaxArgs)

ByteSeeds == {0, 1, 171}
Slice(len, seed) == [k \in 1..len |-> (seed + 37 * (k - 1)) % 256]
ByteSlices == {Slice(len, seed) : len \in 0..MaxBytesLen, seed \in ByteSeeds}

----------------------------------------------------------------------------
(* The state machine *)

InitTransaction ==
    /\ op = "transaction"
    /\ pc = "lookup"
    /\ functions \in Descriptions
    /\ function_name \in FunctionNames
    /\ arguments \in ArgumentLists
    /\ bytes = <<>>

InitFromBytes ==
    /\ op \in {"address_from_bytes", "u256_from_bytes"}
    /\ pc = op
    /\ functions = Null
    /\ function_name = <<>>
    /\ arguments = <<>>
    /\ bytes \in ByteSlices

Init ==
    /\ (InitTransaction \/ InitFromBytes)
    /\ i = 0
    /\ function_found = FALSE
    /\ j = 0
    /\ inputs = <<>>
    /\ signature = <<>>
    /\ first_4_bytes = <<>>
    /\ result = NoResult
    /\ value = NoValue
    /\ word = <<>>

\* lib.rs 72-82
Lookup ==
    /\ pc = "lookup"
    /\ LET r == Scan(functions, function_name, 0)
       IN  /\ i' = r.i
           /\ function_found' = r.function_found
    /\ pc' = "lookup_done"
    /\ UNCHANGED <<op, functions, function_name, arguments, j, inputs, signature,
                   first_4_bytes, result, bytes, value, word>>

\* lib.rs 85-89
NotFound ==
    /\ pc = "lookup_done"
    /\ ~function_found
    /\ result' = FunctionNotFound(function_name)
    /\ pc' = "done"
    /\ UNCHANGED <<op, functions, function_name, arguments, i, function_found, j,
                   inputs, signature, first_4_bytes, bytes, value, word>>

\* lib.rs 91-114
Validate ==
    /\ pc = "lookup_done"
    /\ function_found
    /\ LET r == CheckInputs(Index(functions, i), arguments, 0, <<>>)
       IN  /\ j' = r.j
           /\ inputs' = r.inputs
           /\ IF r.err
              THEN result' = r.error /\ pc' = "done"
              ELSE result' = result /\ pc' = "signature"
    /\ UNCHANGED <<op, functions, function_name, arguments, i, function_found,
                   signature, first_4_bytes, bytes, value, word>>

\* lib.rs 116-123
Signature ==
    /\ pc = "signature"
    /\ LET name == Get(Index(functions, i), "name")
       IN  IF IsStr(name)
           THEN /\ signature' = BuildSignature(name.s, inputs)
                /\ pc' = "hash"
                /\ result' = result
           ELSE /\ signature' = signature
                /\ pc' = "done"
                /\ result' = Panic
    /\ UNCHANGED <<op, functions, function_name, arguments, i, function_found, j,
                   inputs, first_4_bytes, bytes, value, word>>

\* lib.rs 125-130
Hash ==
    /\ pc = "hash"
    /\ first_4_bytes' = SubSeq(Keccak256(signature), 1, SelectorLen)
    /\ pc' = "pack"
    /\ UNCHANGED <<op, functions, function_name, arguments, i, function_found, j,
                   inputs, signature, result, bytes, value, word>>

\* lib.rs 132-137
Pack ==
    /\ pc = "pack"
    /\ first_4_bytes' = Extend(first_4_bytes, arguments)
    /\ result' = Ok(first_4_bytes')
    /\ pc' = "done"
    /\ UNCHANGED <<op, functions, function_name, arguments, i, function_found, j,
                   inputs, signature, bytes, value, word>>

\* mutant: address_from_bytes asserts the width of a U256
AddressFromBytesWideAssert ==
    /\ pc = "address_from_bytes"
    /\ IF Len(bytes) <= WordWidth
       THEN /\ value' = address_from_bytes(bytes)
            /\ result' = result
            /\ pc' = "value_as_u256"
       ELSE /\ value' = value
            /\ result' = Panic
            /\ pc' = "done"
    /\ UNCHANGED <<op, functions, function_name, arguments, i, function_found, j,
                   inputs, signature, first_4_bytes, bytes, word>>

\* types.rs 34-42
AddressFromBytes ==
    /\ pc = "address_from_bytes"
    /\ IF Len(bytes) <= AddressWidth
       THEN /\ value' = address_from_bytes(bytes)
            /\ result' = result
            /\ pc' = "value_as_u256"
       ELSE /\ value' = value
            /\ result' = Panic
            /\ pc' = "done"
    /\ UNCHANGED <<op, functions, function_name, arguments, i, function_found, j,
                   inputs, signature, first_4_bytes, bytes, word>>

\* types.rs 45-53
U256FromBytes ==
    /\ pc = "u256_from_bytes"
    /\ IF Len(bytes) <= WordWidth
       THEN /\ value' = u256_from_bytes(bytes)
            /\ result' = result
            /\ pc' = "value_as_u256"
       ELSE /\ value' = value
            /\ result' = Panic
            /\ pc' = "done"
    /\ UNCHANGED <<op, functions, function_name, arguments, i, function_found, j,
                   inputs, signature, first_4_bytes, bytes, word>>

\* types.rs 19-31
ValueAsU256 ==
    /\ pc = "value_as_u256"
    /\ word' = value_as_u256(value)
    /\ pc' = "done"
    /\ UNCHANGED <<op, functions, function_name, arguments, i, function_found, j,
                   inputs, signature, first_4_bytes, result, bytes, value>>

Next ==
    \/ Lookup
    \/ NotFound
    \/ Validate
    \/ Signature
    \/ Hash
    \/ Pack
    \/ AddressFromBytes
    \/ U256FromBytes
    \/ ValueAsU256

Spec == Init /\ [][Next]_vars

----------------------------------------------------------------------------
(* Vocabulary of the properties, stated on the inputs and not through the  *)
(* operators above                                                         *)

Finished == op = "transaction" /\ pc = "done"
Converted == op \in {"address_from_bytes", "u256_from_bytes"} /\ pc = "done"

NArgs == Len(arguments)
CanonicalName(v) == IF v.variant = "Address" THEN address ELSE uint256
Zeros(n) == [k \in 1..n |-> 0]
ToWord(v) == IF v.variant = "Address" THEN Zeros(12) \o v.val ELSE v.val
Width == IF op = "address_from_bytes" THEN 20 ELSE 32

\* the elements of the description, when it is a list
Listed == IF functions.t = "array" THEN functions.a ELSE <<>>

\* element e is an entry whose name is the string s
Named(e, s) ==
    /\ e.t = "object"
    /\ "name" \in DOMAIN e
    /\ e.name.t = "string"
    /\ e.name.s = s

\* the (1-based) positions of the entries named function_name
Matching == {k \in 1..Len(Listed) : Named(Listed[k], function_name)}
Lowest == CHOOSE k \in Matching : \A m \in Matching : k <= m
NullBefore(k) == \E m \in 1..(k - 1) : Listed[m].t = "null"

\* entry e declares a type name (a string) at index k (0-based)
Declares(e, k) ==
    /\ e.t = "object"
    /\ "inputs" \in DOMAIN e
    /\ e.inputs.t = "array"
    /\ k < Len(e.inputs.a)
    /\ e.inputs.a[k + 1].t = "object"
    /\ "type" \in DOMAIN e.inputs.a[k + 1]
    /\ e.inputs.a[k + 1].type.t = "string"
DeclaredName(e, k) == e.inputs.a[k + 1].type.s
DeclaredCount(e) ==
    IF e.t = "object" /\ "inputs" \in DOMAIN e /\ e.inputs.t = "array"
    THEN Len(e.inputs.a) ELSE 0

\* argument k (0-based) has the type entry e declares at k
Agrees(e, k) ==
    Declares(e, k) /\ DeclaredName(e, k) = CanonicalName(arguments[k + 1])
\* entry e declares, at k, a type name other than that of argument k
Differs(e, k) ==
    Declares(e, k) /\ DeclaredName(e, k) # CanonicalName(arguments[k + 1])
AgreesAll(e) == \A k \in 0..(NArgs - 1) : Agrees(e, k)
\* the leftmost index at which argument and declaration do not agree
Deviating(e) == {k \in 0..(NArgs - 1) : ~Agrees(e, k)}
Leftmost(S) == CHOOSE k \in S : \A m \in S : k <= m

\* the entry the lookup stopped at
Matched == functions.a[i + 1]

RECURSIVE Join(_)
Join(names) ==
    IF names = <<>> THEN <<>>
    ELSE IF Len(names) = 1 THEN names[1]
    ELSE names[1] \o <<",">> \o Join(Tail(names))

CanonicalSignature(e, n) ==
    function_name \o <<"(">>
        \o Join([k \in 1..n |-> DeclaredName(e, k - 1)]) \o <<")">>
Selector(sig) == [k \in 1..4 |-> [keccak256 |-> sig, byte |-> k - 1]]

----------------------------------------------------------------------------
\* C1: a successful transaction returns the 4 selector bytes of the
\* signature it hashed, followed by one 32-byte word per argument, the k-th
\* being the word of arguments[k]; the length is 4 + 32 * n.
C1_SelectorThenWords ==
    (Finished /\ result.tag = "Ok") =>
        /\ Len(result.bytes) = 4 + 32 * NArgs
        /\ SubSeq(result.bytes, 1, 4) = Selector(signature)
        /\ \A k \in 0..(NArgs - 1) :
              SubSeq(result.bytes, 4 + 32 * k + 1, 4 + 32 * k + 32)
                  = ToWord(arguments[k + 1])

C1_Witness ==
    /\ Finished
    /\ result.tag = "Ok"
    /\ NArgs = 2
    /\ arguments[1].variant = "Address"
    /\ arguments[2].variant = "Address"
    /\ arguments[1] # arguments[2]

\* C2: when no entry of the description is named function_name, whatever
\* the arguments, the result is FunctionNotFound naming function_name, and
\* neither validation nor packing has run.
C2_NotFound ==
    (Finished /\ Matching = {}) =>
        /\ result.tag = "Err"
        /\ result.kind = "FunctionNotFound"
        /\ result.name = function_name
        /\ j = 0 /\ inputs = <<>> /\ signature = <<>> /\ first_4_bytes = <<>>

C2_Witness ==
    /\ Finished
    /\ Matching = {}
    /\ Len(Listed) = 2
    /\ NArgs = 1
    /\ \E k \in 1..2 : Differs(Listed[k], 0)

\* C3 as stated: when the function is found and some argument's canonical
\* name differs from the type name declared at its index, the result is
\* TypeMismatch with the expected and found types of the leftmost such
\* index, which is where validation stopped.
C3_Stated ==
    (Finished /\ function_found
        /\ \E k \in 0..(NArgs - 1) : Differs(Matched, k)) =>
        LET d == Leftmost({k \in 0..(NArgs - 1) : Differs(Matched, k)})
        IN  /\ result.tag = "Err"
            /\ result.kind = "TypeMismatch"
            /\ result.expected = DeclaredName(Matched, d)
            /\ result.found = CanonicalName(arguments[d + 1])
            /\ j = d

\* C3 amended: the same, provided every index below the leftmost differing
\* one has a declared type name (a string).
C3_LeftmostMismatch ==
    (Finished /\ function_found
        /\ \E k \in 0..(NArgs - 1) : Differs(Matched, k)) =>
        LET d == Leftmost({k \in 0..(NArgs - 1) : Differs(Matched, k)})
        IN  (\A m \in 0..(d - 1) : Declares(Matched, m)) =>
                /\ result.tag = "Err"
                /\ result.kind = "TypeMismatch"
                /\ result.expected = DeclaredName(Matched, d)
                /\ result.found = CanonicalName(arguments[d + 1])
                /\ j = d

C3_Witness ==
    /\ Finished
    /\ function_found
    /\ NArgs = 2
    /\ Agrees(Matched, 0)
    /\ Differs(Matched, 1)
    /\ result.tag = "Err"
    /\ result.kind = "TypeMismatch"

\* C4 as stated: with more arguments than declared parameters, all of the
\* declared ones agreeing, the call succeeds and packs every argument.
C4_Stated ==
    (Finished /\ function_found
        /\ NArgs > DeclaredCount(Matched)
        /\ \A k \in 0..(DeclaredCount(Matched) - 1) : Agrees(Matched, k)) =>
        /\ result.tag = "Ok"
        /\ Len(result.bytes) = 4 + 32 * NArgs

\* C4 amended: with more arguments than declared parameters, all of the
\* declared ones agreeing, the call fails with MalformedDescription at the
\* first index beyond the declared list, and nothing is hashed or packed.
C4_ExtraArgumentRejected ==
    (Finished /\ function_found
        /\ NArgs > DeclaredCount(Matched)
        /\ \A k \in 0..(DeclaredCount(Matched) - 1) : Agrees(Matched, k)) =>
        /\ result.tag = "Err"
        /\ result.kind = "MalformedDescription"
        /\ j = DeclaredCount(Matched)
        /\ signature = <<>> /\ first_4_bytes = <<>>

C4_Witness ==
    /\ Finished
    /\ function_found
    /\ DeclaredCount(Matched) = 1
    /\ NArgs = 2
    /\ Agrees(Matched, 0)
    /\ result.tag = "Err"

C6_Stated ==
    (Converted /\ Len(bytes) > Width) =>
        /\ result.tag = "Err"
        /\ result.kind = "OversizedInput"
        /\ value = NoValue

\* C6 amended: a slice longer than the variant's width makes from_bytes
\* panic on its assertion; no value is produced and nothing is returned.
C6_OversizedPanics ==
    (Converted /\ Len(bytes) > Width) =>
        /\ result = Panic
        /\ value = NoValue
        /\ word = <<>>

C6_Witness ==
    /\ Converted
    /\ op = "address_from_bytes"
    /\ Len(bytes) = 21
    /\ result.tag = "Panic"

\* C7: for a slice b no longer than the variant's width, the word of
\* from_bytes(b) is 32 - len(b) zero bytes followed by b; an Address word
\* begins with 12 zero bytes.
C7_ZeroLeftPadded ==
    (Converted /\ Len(bytes) <= Width) =>
        /\ result = NoResult
        /\ word = Zeros(32 - Len(bytes)) \o bytes
        /\ op = "address_from_bytes" => SubSeq(word, 1, 12) = Zeros(12)

C7_Witness ==
    /\ Converted
    /\ op = "address_from_bytes"
    /\ Len(bytes) = 20
    /\ bytes[1] # 0
    /\ Len(word) = 32

\* what C8 calls structurally malformed: an element met by the lookup scan
\* that is no entry with a string name, or a declared parameter of the
\* matched entry, at an argument's index, without a string type
MetByScan ==
    {k \in 1..Len(Listed) :
        \A m \in 1..(k - 1) : ~Named(Listed[m], function_name)}
IllFormedElement(e) ==
    ~(e.t = "object" /\ "name" \in DOMAIN e /\ e.name.t = "string")
MalformedForCall ==
    \/ \E k \in MetByScan : IllFormedElement(Listed[k])
    \/ /\ Matching # {}
       /\ \E k \in 0..(NArgs - 1) : ~Declares(Listed[Lowest], k)

\* C8 as stated: a malformed description, in the scan or in the matched
\* entry's parameters, surfaces as MalformedDescription.
C8_Stated ==
    (Finished /\ MalformedForCall) =>
        /\ result.tag = "Err"
        /\ result.kind = "MalformedDescription"

\* C8 amended: the call never panics, and it fails with
\* MalformedDescription exactly when the lookup stopped at an entry and the
\* leftmost argument index that does not agree with that entry has no
\* declared type name.  Elements met by the scan are not reported: a null
\* element ends the scan, other elements without a matching name are
\* skipped.
C8_MalformedExactly ==
    Finished =>
        /\ result.tag \in {"Ok", "Err"}
        /\ (result.tag = "Err" /\ result.kind = "MalformedDescription")
            <=> /\ Matching # {}
                /\ ~NullBefore(Lowest)
                /\ Deviating(Listed[Lowest]) # {}
                /\ ~Declares(Listed[Lowest],
                             Leftmost(Deviating(Listed[Lowest])))

C8_Witness ==
    /\ Finished
    /\ Matching = {2}
    /\ IllFormedElement(Listed[1])
    /\ Listed[1].t # "null"
    /\ NArgs = 2
    /\ result.tag = "Err"
    /\ result.kind = "MalformedDescription"

\* C9 as stated: with several entries named function_name the lowest one
\* is used, validation and signature come from it alone, arguments that
\* agree only with a later one yield TypeMismatch, and the duplicates cause
\* no error.
C9_Stated ==
    (Finished /\ Cardinality(Matching) >= 2) =>
        /\ function_found
        /\ i = Lowest - 1
        /\ AgreesAll(Listed[Lowest]) =>
              /\ result.tag = "Ok"
              /\ inputs = [k \in 1..NArgs |-> DeclaredName(Listed[Lowest], k - 1)]
        /\ (~AgreesAll(Listed[Lowest])
              /\ \E k \in Matching : AgreesAll(Listed[k])) =>
              /\ result.tag = "Err"
              /\ result.kind = "TypeMismatch"

\* C9 amended: the same when no null element precedes the lowest entry
\* named function_name, and arguments that agree only with a later one
\* yield TypeMismatch or, when the lowest entry has no declared type name at
\* the leftmost index that does not agree, MalformedDescription.
C9_FirstMatchWins ==
    (Finished /\ Cardinality(Matching) >= 2 /\ ~NullBefore(Lowest)) =>
        /\ function_found
        /\ i = Lowest - 1
        /\ AgreesAll(Listed[Lowest]) =>
              /\ result.tag = "Ok"
              /\ inputs = [k \in 1..NArgs |-> DeclaredName(Listed[Lowest], k - 1)]
        /\ (~AgreesAll(Listed[Lowest])
              /\ \E k \in Matching : AgreesAll(Listed[k])) =>
              /\ result.tag = "Err"
              /\ result.kind =
                    IF Declares(Listed[Lowest],
                                Leftmost(Deviating(Listed[Lowest])))
                    THEN "TypeMismatch" ELSE "MalformedDescription"

C9_Witness ==
    /\ Finished
    /\ Matching = {1, 2}
    /\ NArgs = 1
    /\ Differs(Listed[1], 0)
    /\ AgreesAll(Listed[2])
    /\ result.tag = "Err"
    /\ result.kind = "TypeMismatch"

\* C10: with no arguments and the function found, the call succeeds, the
\* signature hashed is function_name followed by "()", and the output is
\* the 4 selector bytes of that signature.
C10_EmptyArguments ==
    (Finished /\ function_found /\ NArgs = 0) =>
        /\ result.tag = "Ok"
        /\ signature = function_name \o <<"(", ")">>
        /\ result.bytes = Selector(function_name \o <<"(", ")">>)

====
